---- MODULE Spec2Model ----
(***************************************************************************)
(* analyze_excel.py: a linear script.  Inside one try block it opens the   *)
(* workbook 'watchlist.xlsm' (line 9), prints its sheet names (line 11),   *)
(* loads the sheet 'Sheet1' (line 14) and prints the first rows of it      *)
(* (line 15).  `except Exception as e` (line 16) prints the error          *)
(* (line 17) and calls sys.exit(1) (line 18).                              *)
(*                                                                         *)
(* The state is the Python process (program counter, the names xls, df     *)
(* and e, standard output, standard error, exit status) and its            *)
(* environment (the file on disk, the encoding of standard output).        *)
(* A library call is an operator that either returns a value or raises an  *)
(* exception, as pandas and the interpreter do on the environment given.   *)
(* Environment assumed: writes to standard output fail only by encoding    *)
(* (UnicodeEncodeError), memory suffices, no signal is delivered.          *)
(***************************************************************************)
EXTENDS Naturals, Sequences, FiniteSets, TLC

VARIABLES
    disk,       \* the file system: path -> file
    encoding,   \* sys.stdout.encoding
    pc,         \* the line about to run
    xls,        \* the name xls (line 9)
    df,         \* the name df (line 14)
    raised,     \* the exception raised inside the try block, if any
    e,          \* the name e bound by the except clause (line 16)
    stdout,     \* what was written to standard output, in order
    stderr,     \* what the interpreter wrote to standard error
    process,    \* running, or exited with a code
    trace       \* history: the lines executed so far, in order

vars == <<disk, encoding, pc, xls, df, raised, e, stdout, stderr, process, trace>>

---------------------------------------------------------------------------
(* Bounds of the model *)

\* most data rows of the sheet 'Sheet1'
MaxRows == 6
\* most sheets of a workbook
MaxSheets == 2

---------------------------------------------------------------------------
(* Constants of the program *)

file_path == "watchlist.xlsm"

sheet_name == "Sheet1"

\* DataFrame.head(n=5): line 15 calls head() with no argument
HeadDefault == 5

None == [tag |-> "None"]

Range(s) == {s[i] : i \in 1..Len(s)}

Min(a, b) == IF a <= b THEN a ELSE b

---------------------------------------------------------------------------
(* The environment: the file at file_path *)

\* "Donn_ees" and "caf_e" stand for texts holding a non-ASCII letter
SheetNameUniverse == {"Sheet1", "Data", "Donn_ees"}

NonAsciiTexts == {"Donn_ees", "caf_e"}

ColumnChoices == {<<"Ticker">>, <<"Ticker", "Name">>}

\* row i of a sheet: its Ticker cell numbers the row, its Name cell is
\* non-ASCII in row k only (k = 0: in no row)
Row(i, cols, k) ==
    [c \in Range(cols) |->
        IF c = "Ticker" THEN ToString(i)
        ELSE IF i = k THEN "caf_e" ELSE "tea"]

Sheet(cols, n, k) ==
    [columns |-> cols, rows |-> [i \in 1..n |-> Row(i, cols, k)]]

Sheet1Choices ==
    {Sheet(cols, n, k) :
        cols \in ColumnChoices, n \in 0..MaxRows, k \in 0..MaxRows}

\* the other sheets have a fixed content, different from every Sheet1
OtherSheet(name) ==
    IF name = "Data"
    THEN [columns |-> <<"K">>, rows |-> <<[K |-> "0"]>>]
    ELSE [columns |-> <<"K", "V">>, rows |-> <<>>]

\* a workbook holds at least one sheet, and its sheet names are unique
NameSeqs ==
    {ns \in UNION {[1..n -> SheetNameUniverse] : n \in 1..MaxSheets} :
        \A i, j \in 1..Len(ns) : ns[i] = ns[j] => i = j}

Workbooks ==
    {[names |-> ns,
      sheets |-> [s \in Range(ns) |->
                    IF s = sheet_name THEN c ELSE OtherSheet(s)]] :
        ns \in NameSeqs, c \in Sheet1Choices}

Files ==
    {[kind |-> "absent"], [kind |-> "garbage"]}
        \cup {[kind |-> "workbook", book |-> b] : b \in Workbooks}

---------------------------------------------------------------------------
(* Exceptions *)

\* the base class of each built-in exception class the run can meet
Base(cls) ==
    CASE cls = "FileNotFoundError" -> "OSError"
      [] cls = "OSError" -> "Exception"
      [] cls = "UnicodeEncodeError" -> "UnicodeError"
      [] cls = "UnicodeError" -> "ValueError"
      [] cls = "ValueError" -> "Exception"
      [] cls = "Exception" -> "BaseException"
      [] cls = "SystemExit" -> "BaseException"
      [] OTHER -> "object"

RECURSIVE issubclass(_, _)
issubclass(cls, of) ==
    IF cls = of THEN TRUE
    ELSE IF cls = "object" THEN FALSE
    ELSE issubclass(Base(cls), of)

Return(v) == [ok |-> TRUE, value |-> v]

Raise(cls, msg) == [ok |-> FALSE, exc |-> [cls |-> cls, msg |-> msg]]

\* the exception as the interpreter holds it: with the line that raised it
At(exc, line) == [cls |-> exc.cls, msg |-> exc.msg, lineno |-> line]

---------------------------------------------------------------------------
(* The library calls of lines 9 to 18 *)

\* faulty variant: a missing file reported like an unreadable one
ExcelFile_absent_as_garbage(io) ==
    LET f == disk[io] IN
    IF f.kind = "workbook"
    THEN Return([tag |-> "ExcelFile", io |-> io, book |-> f.book])
    ELSE Raise("ValueError", "Excel file format cannot be determined")

\* pd.ExcelFile(io): the parsed workbook, or the error pandas raises
ExcelFile(io) ==
    LET f == disk[io] IN
    CASE f.kind = "absent" ->
            Raise("FileNotFoundError",
                  "[Errno 2] No such file or directory: 'watchlist.xlsm'")
      [] f.kind = "garbage" ->
            Raise("ValueError", "Excel file format cannot be determined")
      [] f.kind = "workbook" ->
            Return([tag |-> "ExcelFile", io |-> io, book |-> f.book])

\* faulty variant: the names in reverse order
sheet_names_reversed(x) ==
    [i \in 1..Len(x.book.names) |-> x.book.names[Len(x.book.names) + 1 - i]]

\* ExcelFile.sheet_names: the names in the workbook's order
sheet_names(x) == x.book.names

\* faulty variant: a missing sheet read as an empty table
read_excel_empty(x, name) ==
    IF name \in Range(x.book.names)
    THEN Return([tag |-> "DataFrame",
                 columns |-> x.book.sheets[name].columns,
                 rows |-> x.book.sheets[name].rows])
    ELSE Return([tag |-> "DataFrame", columns |-> <<>>, rows |-> <<>>])

\* faulty variant: sheet_name left out, so that pandas reads the first sheet
read_excel_first(x, name) ==
    IF x.book.names # <<>>
    THEN Return([tag |-> "DataFrame",
                 columns |-> x.book.sheets[x.book.names[1]].columns,
                 rows |-> x.book.sheets[x.book.names[1]].rows])
    ELSE Raise("ValueError", "Worksheet index 0 is invalid, 0 worksheets found")

\* pd.read_excel(xls, sheet_name=name): the sheet as a DataFrame
read_excel(x, name) ==
    IF name \in Range(sheet_names(x))
    THEN Return([tag |-> "DataFrame",
                 columns |-> x.book.sheets[name].columns,
                 rows |-> x.book.sheets[name].rows])
    ELSE Raise("ValueError", "Worksheet named 'Sheet1' not found")

\* faulty variant: tail in place of head, the last n rows
head_tail(d, n) ==
    [tag |-> "DataFrame",
     columns |-> d.columns,
     rows |-> SubSeq(d.rows, Len(d.rows) + 1 - Min(n, Len(d.rows)), Len(d.rows))]

\* DataFrame.head(n): a new frame holding the first n rows
head(d, n) ==
    [tag |-> "DataFrame",
     columns |-> d.columns,
     rows |-> SubSeq(d.rows, 1, Min(n, Len(d.rows)))]

\* the objects print is given
Text(s) == [kind |-> "text", val |-> s]

Names(ns) == [kind |-> "names", val |-> ns]

Table(d) == [kind |-> "table", val |-> d]

Error(exc) == [kind |-> "error", val |-> exc]

\* the texts str(obj) is made of
TextsOf(obj) ==
    CASE obj.kind = "text" -> {obj.val}
      [] obj.kind = "names" -> Range(obj.val)
      [] obj.kind = "table" ->
            Range(obj.val.columns)
                \cup {obj.val.rows[i][c] :
                        i \in 1..Len(obj.val.rows), c \in Range(obj.val.columns)}
      [] obj.kind = "error" -> {obj.val.msg}

\* whether sys.stdout's encoder accepts str(obj)
Encodable(obj) ==
    encoding = "utf-8" \/ TextsOf(obj) \cap NonAsciiTexts = {}

\* print(*objs) onto out: each str(obj) is encoded and written in turn (the
\* separator and the newline are ASCII); the first one the encoder refuses
\* raises, with the objects before it already written
RECURSIVE print(_, _)
print(out, objs) ==
    IF objs = <<>> THEN [ok |-> TRUE, out |-> out]
    ELSE IF Encodable(Head(objs))
         THEN print(Append(out, Head(objs)), Tail(objs))
         ELSE [ok |-> FALSE, out |-> out,
               exc |-> [cls |-> "UnicodeEncodeError",
                        msg |-> "'ascii' codec can't encode character"]]

---------------------------------------------------------------------------
(* Control flow *)

\* faulty variant: the sheet names printed after the preview
NextLine_names_last(line) ==
    CASE line = "L9" -> "L14"
      [] line = "L14" -> "L15"
      [] line = "L15" -> "L11"
      [] line = "L11" -> "EOF"
      [] line = "L17" -> "L18"

\* faulty variant: the sheet loaded before the sheet names are printed
NextLine_load_first(line) ==
    CASE line = "L9" -> "L14"
      [] line = "L14" -> "L11"
      [] line = "L11" -> "L15"
      [] line = "L15" -> "EOF"
      [] line = "L17" -> "L18"

\* the statement that follows a statement that completed
NextLine(line) ==
    CASE line = "L9" -> "L11"
      [] line = "L11" -> "L14"
      [] line = "L14" -> "L15"
      [] line = "L15" -> "EOF"
      [] line = "L17" -> "L18"

\* faulty variant: except OSError in place of except Exception
Catches_OSError(exc) == issubclass(exc.cls, "OSError")

\* whether the except clause of line 16 catches the exception
Catches(exc) == issubclass(exc.cls, "Exception")

Exited(code) == [state |-> "exited", code |-> code]

\* an exception nothing catches: the interpreter prints the traceback to
\* standard error and exits with status 1
Uncaught(exc) ==
    /\ stderr' = Append(stderr, exc)
    /\ process' = Exited(1)
    /\ pc' = "end"

\* faulty variant: the failed statement is run again
RaiseInTry_retry(exc, line) ==
    /\ raised' = At(exc, line)
    /\ pc' = line

\* an exception raised at a line of the try block: control goes to line 16
RaiseInTry(exc, line) ==
    /\ raised' = At(exc, line)
    /\ pc' = "L16"

Step(line) ==
    /\ process.state = "running"
    /\ pc = line
    /\ trace' = Append(trace, line)
    /\ UNCHANGED <<disk, encoding>>

---------------------------------------------------------------------------
(* The statements *)

\* line 9: xls = pd.ExcelFile(file_path)
Line9 ==
    /\ Step("L9")
    /\ LET r == ExcelFile(file_path) IN
        IF r.ok
        THEN /\ xls' = r.value
             /\ pc' = NextLine("L9")
             /\ UNCHANGED raised
        ELSE /\ RaiseInTry(r.exc, "L9")
             /\ UNCHANGED xls
    /\ UNCHANGED <<df, e, stdout, stderr, process>>

\* line 11: print('Sheet names:', xls.sheet_names)
Line11 ==
    /\ Step("L11")
    /\ LET r == print(stdout, <<Text("Sheet names:"), Names(sheet_names(xls))>>) IN
        /\ stdout' = r.out
        /\ IF r.ok
           THEN pc' = NextLine("L11") /\ UNCHANGED raised
           ELSE RaiseInTry(r.exc, "L11")
    /\ UNCHANGED <<xls, df, e, stderr, process>>

\* line 14: df = pd.read_excel(xls, sheet_name='Sheet1')
Line14 ==
    /\ Step("L14")
    /\ LET r == read_excel(xls, sheet_name) IN
        IF r.ok
        THEN /\ df' = r.value
             /\ pc' = NextLine("L14")
             /\ UNCHANGED raised
        ELSE /\ RaiseInTry(r.exc, "L14")
             /\ UNCHANGED df
    /\ UNCHANGED <<xls, e, stdout, stderr, process>>

\* line 15: print(df.head())
Line15 ==
    /\ Step("L15")
    /\ LET r == print(stdout, <<Table(head(df, HeadDefault))>>) IN
        /\ stdout' = r.out
        /\ IF r.ok
           THEN pc' = NextLine("L15") /\ UNCHANGED raised
           ELSE RaiseInTry(r.exc, "L15")
    /\ UNCHANGED <<xls, df, e, stderr, process>>

\* line 16: except Exception as e
Line16 ==
    /\ Step("L16")
    /\ IF Catches(raised)
       THEN /\ e' = raised
            /\ pc' = "L17"
            /\ UNCHANGED <<stderr, process>>
       ELSE /\ Uncaught(raised)
            /\ UNCHANGED e
    /\ UNCHANGED <<xls, df, raised, stdout>>

\* line 17: print('Error:', e)
Line17 ==
    /\ Step("L17")
    /\ LET r == print(stdout, <<Text("Error:"), Error(e)>>) IN
        /\ stdout' = r.out
        /\ IF r.ok
           THEN pc' = NextLine("L17") /\ UNCHANGED <<stderr, process>>
           ELSE Uncaught(At(r.exc, "L17"))
    /\ UNCHANGED <<xls, df, raised, e>>

\* line 18: sys.exit(1) raises SystemExit(1) outside any try block: the
\* interpreter exits with that status and prints nothing
Line18 ==
    /\ Step("L18")
    /\ process' = Exited(1)
    /\ pc' = "end"
    /\ UNCHANGED <<xls, df, raised, e, stdout, stderr>>

\* the end of the file after line 15: the interpreter exits with status 0
EndOfScript ==
    /\ Step("EOF")
    /\ process' = Exited(0)
    /\ pc' = "end"
    /\ UNCHANGED <<xls, df, raised, e, stdout, stderr>>

Init ==
    /\ disk \in [{file_path} -> Files]
    /\ encoding \in {"utf-8", "ascii"}
    /\ pc = "L9"
    /\ xls = None
    /\ df = None
    /\ raised = None
    /\ e = None
    /\ stdout = <<>>
    /\ stderr = <<>>
    /\ process = [state |-> "running"]
    /\ trace = <<>>

Next ==
    \/ Line9
    \/ Line11
    \/ Line14
    \/ Line15
    \/ Line16
    \/ Line17
    \/ Line18
    \/ EndOfScript

Spec == Init /\ [][Next]_vars

---------------------------------------------------------------------------
(* Vocabulary of the properties *)

ExitedWith(code) == process.state = "exited" /\ process.code = code

HasExited == process.state = "exited"

\* the file at the fixed path is a workbook pandas can open
Opens == disk[file_path].kind = "workbook"

Book == disk[file_path].book

HasSheet1 == Opens /\ "Sheet1" \in Range(Book.names)

Sheet1Rows == Book.sheets["Sheet1"].rows

Kinds(out) == [i \in 1..Len(out) |-> out[i].kind]

Printed(kind) == \E i \in 1..Len(stdout) : stdout[i].kind = kind

NamesPrinted == Printed("names")

PreviewPrinted == Printed("table")

ErrorPrinted == Printed("error")

TryLines == {"L9", "L11", "L14", "L15"}

\* a step of the try block raised, at this line
FailedAt(line) == raised # None /\ raised.lineno = line

\* standard output of a run that printed the names and then the preview
IsNamesThenPreview(out) ==
    /\ Kinds(out) = <<"text", "names", "table">>
    /\ out[1].val = "Sheet names:"
    /\ out[2].val = Book.names
    /\ out[3].val.columns = Book.sheets["Sheet1"].columns
    /\ Len(out[3].val.rows) <= 5
    /\ Len(out[3].val.rows) = Min(Len(Sheet1Rows), 5)
    /\ \A i \in 1..Len(out[3].val.rows) : out[3].val.rows[i] = Sheet1Rows[i]

---------------------------------------------------------------------------
(* C1: the run on a workbook that opens and holds 'Sheet1' *)

---------------------------------------------------------------------------
(* C2: the run on a missing file *)

\* C2: when the file at the fixed path does not exist, the preview is never
\* printed, and the run ends with exit code 1 having printed an error
\* message that carries the file-not-found indication.
C2_MissingFile ==
    disk[file_path].kind = "absent" =>
        /\ ~PreviewPrinted
        /\ HasExited =>
            /\ ExitedWith(1)
            /\ Kinds(stdout) = <<"text", "error">>
            /\ stdout[1].val = "Error:"
            /\ stdout[2].val.cls = "FileNotFoundError"
            /\ stdout[2].val.msg
                 = "[Errno 2] No such file or directory: 'watchlist.xlsm'"

\* a run on a missing file has ended
C2_Witness ==
    /\ disk[file_path].kind = "absent"
    /\ ExitedWith(1)
    /\ ErrorPrinted

---------------------------------------------------------------------------
(* C3: the run on a workbook without 'Sheet1' *)

\* C3: when the workbook opens but holds no sheet named 'Sheet1', no table
\* preview is ever printed, and the run ends with exit code 1 having
\* printed an error message.
C3_MissingSheet ==
    (Opens /\ ~HasSheet1) =>
        /\ ~PreviewPrinted
        /\ df = None
        /\ HasExited => (ExitedWith(1) /\ ErrorPrinted)

\* a run on an opened workbook without 'Sheet1' failed at the load step
C3_Witness ==
    /\ Opens
    /\ ~HasSheet1
    /\ ExitedWith(1)
    /\ FailedAt("L14")
    /\ ErrorPrinted

---------------------------------------------------------------------------
(* C4: every error is caught, logged and turned into exit code 1 *)

\* C4: an error raised by any step of the try block (open, print names,
\* load, print preview) is caught by the except clause (bound to e, nothing
\* on standard error), logged as the last thing on standard output and
\* turned into exit code 1; the run ends with 0 exactly when no step raised;
\* no run ends with an uncaught error or with a code other than 0 or 1.
C4_CatchAll ==
    /\ stderr = <<>>
    /\ (raised # None /\ pc # "L16") => e = raised
    /\ HasExited =>
        /\ process.code \in {0, 1}
        /\ ExitedWith(0) <=> raised = None
        /\ raised # None =>
            /\ ExitedWith(1)
            /\ stdout # <<>>
            /\ stdout[Len(stdout)].kind = "error"
            /\ stdout[Len(stdout)].val = raised

\* an error raised by the print of the preview was caught and logged
C4_Witness ==
    /\ ExitedWith(1)
    /\ FailedAt("L15")
    /\ e = raised
    /\ ErrorPrinted

---------------------------------------------------------------------------
(* C5: the printed sheet names *)

\* C5: whenever the workbook opens, the sheet-name sequence line 11 prints
\* is the workbook's sheet names in their on-disk order (same length, same
\* element at every position), and it is printed once line 11 has completed.
C5_SheetOrder ==
    /\ \A i \in 1..Len(stdout) :
          stdout[i].kind = "names" =>
              /\ Opens
              /\ Len(stdout[i].val) = Len(Book.names)
              /\ \A j \in 1..Len(Book.names) : stdout[i].val[j] = Book.names[j]
    /\ (xls # None /\ pc # "L11" /\ ~FailedAt("L11")) => NamesPrinted

\* the names of a workbook of several sheets, 'Sheet1' not first, are printed
C5_Witness ==
    /\ NamesPrinted
    /\ Len(Book.names) > 1
    /\ Book.names[1] # "Sheet1"

---------------------------------------------------------------------------
(* C6: the order of the outputs *)

\* C6: on standard output the sheet-name sequence appears at most once, the
\* table preview appears only after it, never before it, and an error
\* message, once printed, is the last thing printed before the exit.
C6_OutputOrder ==
    /\ \A i, j \in 1..Len(stdout) :
          (stdout[i].kind = "names" /\ stdout[j].kind = "names") => i = j
    /\ \A i \in 1..Len(stdout) :
          stdout[i].kind = "table" =>
              \E j \in 1..(i - 1) : stdout[j].kind = "names"
    /\ \A i \in 1..Len(stdout) :
          stdout[i].kind = "error" => i = Len(stdout)

\* a run printed the names, then the preview, and ended
C6_Witness ==
    /\ HasExited
    /\ Kinds(stdout) = <<"text", "names", "table">>

---------------------------------------------------------------------------
(* C7: what the user sees of a failing run, by cause *)

\* the causes the claim names: a missing file, an unsupported or corrupt
\* file (both fail the open, line 9), a missing sheet (fails the load)
ListedCause == FailedAt("L9") \/ (FailedAt("L14") /\ ~HasSheet1)

\* the kinds of output of the run that fails on a missing file
ShapeOfOpenFailure == <<"text", "error">>

\* C7 as stated: all failing runs whose cause is a missing file, a corrupt
\* file or a missing sheet show the same kinds of output lines and the same
\* exit code, which are then those of the run on a missing file.
C7_AsStated ==
    (HasExited /\ ListedCause) =>
        /\ ExitedWith(1)
        /\ Kinds(stdout) = ShapeOfOpenFailure

\* C7 (amended): every failing run whose cause is a missing file, a corrupt
\* file or a missing sheet ends alike, with the error line ('Error:' and the
\* error) last on standard output and exit code 1; but a missing-sheet run
\* shows the sheet-name line before the error line, and a run that fails to
\* open the file shows the error line only.
C7_SameEndingOnly ==
    (HasExited /\ ListedCause) =>
        /\ ExitedWith(1)
        /\ Len(stdout) >= 2
        /\ stdout[Len(stdout) - 1].kind = "text"
        /\ stdout[Len(stdout) - 1].val = "Error:"
        /\ stdout[Len(stdout)].kind = "error"
        /\ FailedAt("L9") => Kinds(stdout) = ShapeOfOpenFailure
        /\ FailedAt("L14") =>
              Kinds(stdout) = <<"text", "names", "text", "error">>

\* a missing-sheet run ended having shown the sheet names before the error
C7_Witness ==
    /\ ExitedWith(1)
    /\ FailedAt("L14")
    /\ ~HasSheet1
    /\ Kinds(stdout) = <<"text", "names", "text", "error">>

---------------------------------------------------------------------------
(* C8: no retry *)

Count(line) == Cardinality({i \in 1..Len(trace) : trace[i] = line})

\* C8: each step of the try block (open, print names, load, print preview)
\* runs at most once per run; once a step has failed no step of the try
\* block runs again (the failed one is the last of them in the run), and
\* the run then ends with exit code 1.
C8_NoRetry ==
    /\ \A line \in TryLines : Count(line) <= 1
    /\ raised # None =>
        /\ pc \notin TryLines
        /\ \E i \in 1..Len(trace) :
              /\ trace[i] = raised.lineno
              /\ \A j \in (i + 1)..Len(trace) : trace[j] \notin TryLines
        /\ HasExited => ExitedWith(1)

\* a run failed at the load step and went straight to the handler and out
C8_Witness ==
    /\ HasExited
    /\ trace = <<"L9", "L11", "L14", "L16", "L17", "L18">>

---------------------------------------------------------------------------
(* C9: the run is read-only *)

\* C9: no step changes the file system (the workbook's sheet names, their
\* order, every sheet's rows; no file is created), no step changes the
\* loaded table once it is loaded, and the loaded table has the columns
\* (and the rows) of the sheet 'Sheet1' it was loaded from.
C9_ReadOnly ==
    /\ [][/\ disk' = disk
          /\ DOMAIN disk' = {file_path}
          /\ df # None => df' = df]_vars
    /\ [](df # None =>
            /\ HasSheet1
            /\ df.columns = Book.sheets["Sheet1"].columns
            /\ df.rows = Sheet1Rows)

\* a table of several rows was loaded and the run has ended
C9_Witness ==
    /\ HasExited
    /\ df # None
    /\ Len(df.rows) > 1
    /\ Len(Book.names) > 1

---------------------------------------------------------------------------
(* C10: the partial output of a failing run *)

\* C10 as stated: in a run that ends with exit code 1 the sheet-name line
\* has been printed if and only if opening the workbook succeeded, and the
\* preview is absent when the failure is at the open or the load step.
C10_AsStated ==
    ExitedWith(1) =>
        /\ NamesPrinted <=> xls # None
        /\ (FailedAt("L9") \/ FailedAt("L14")) => ~PreviewPrinted

\* C10 (amended): in a run that ends with exit code 1 the sheet-name line
\* has been printed if and only if opening the workbook succeeded and the
\* print of the sheet names did not itself raise; a missing-sheet failure
\* prints the sheet names and then the error, an open failure prints only
\* the error; the preview is absent when the failure is at the open or the
\* load step.
C10_PartialOutput ==
    ExitedWith(1) =>
        /\ NamesPrinted <=> (xls # None /\ ~FailedAt("L11"))
        /\ FailedAt("L14") =>
              Kinds(stdout) = <<"text", "names", "text", "error">>
        /\ FailedAt("L9") => (xls = None /\ Kinds(stdout) = <<"text", "error">>)
        /\ (FailedAt("L9") \/ FailedAt("L14")) => ~PreviewPrinted

\* a run whose workbook opened failed while printing the sheet names
C10_Witness ==
    /\ ExitedWith(1)
    /\ xls # None
    /\ FailedAt("L11")
    /\ ~NamesPrinted

====
